---------------------------- MODULE Spec2Model ----------------------------
(***************************************************************************)
(* PDF bank-statement processor (taaha161/pdf_reading_agent, backend/).    *)
(*                                                                         *)
(* Three state machines share this module, each with its own              *)
(* specification:                                                          *)
(*   Spec       services/statement_agent.py  extract_and_categorize        *)
(*   SpecPdf    services/pdf_processor.py    extract_text_from_pdf         *)
(*   SpecStore  main.py + store.py           process_pdf, download_csv,    *)
(*                                           chat, the job store           *)
(*                                                                         *)
(* Texts returned by the language model are sequences of lexical tokens    *)
(* (punctuation, string literals, number literals, bare words); the JSON   *)
(* values json.loads builds from them are tagged records.  Whitespace      *)
(* between tokens is not represented; string literals hold no bracket or   *)
(* quote characters.                                                       *)
(***************************************************************************)
EXTENDS Integers, Sequences, FiniteSets, TLC

(***************************************************************************)
(* Tokens of a model response.                                             *)
(***************************************************************************)
P(c) == [t |-> "p", v |-> c]        \* a punctuation character
S(x) == [t |-> "s", v |-> x]        \* a complete string literal "x"
N(x) == [t |-> "n", v |-> x]        \* a number literal
W(x) == [t |-> "w", v |-> x]        \* a bare word (prose, null, true, false)

LBRACK == P("[")
RBRACK == P("]")
LBRACE == P("{")
RBRACE == P("}")
COMMA  == P(",")
COLON  == P(":")
\* A lone apostrophe (as in "Here's") and a double quote that is never closed
\* (a string cut off by truncation; only prose words follow it).
APOS   == P("'")
DQUOTE == P("\"")

(***************************************************************************)
(* JSON values as Python holds them after json.loads.                      *)
(***************************************************************************)
JStr(x)   == [k |-> "str",  s |-> x,  items |-> <<>>]
JNum(x)   == [k |-> "num",  s |-> x,  items |-> <<>>]
JBool(x)  == [k |-> "bool", s |-> x,  items |-> <<>>]
JNull     == [k |-> "null", s |-> "", items |-> <<>>]
JList(xs) == [k |-> "list", s |-> "", items |-> xs]
\* a dict keeps its members in insertion order, as <<key, value>> pairs
JDict(ms) == [k |-> "dict", s |-> "", items |-> ms]

isinstance_list(v) == v.k = "list"
\* Python gives .get only to dict among the values json.loads can build
HasGetAttr(v) == v.k = "dict"

RECURSIVE LastIndexOfKey(_, _, _)
LastIndexOfKey(ms, key, i) ==
    IF i = 0 THEN 0
    ELSE IF ms[i][1] = key THEN i
    ELSE LastIndexOfKey(ms, key, i - 1)

\* key in d
HasKey(d, key) == LastIndexOfKey(d.items, key, Len(d.items)) # 0

\* d.get(key, default): a repeated key keeps its last value
DictGet(d, key, default) ==
    LET i == LastIndexOfKey(d.items, key, Len(d.items))
    IN  IF i = 0 THEN default ELSE d.items[i][2]

\* str(v)
PyStr(v) ==
    CASE v.k = "str"  -> v.s
      [] v.k = "num"  -> v.s
      [] v.k = "bool" -> IF v.s = "true" THEN "True" ELSE "False"
      [] v.k = "null" -> "None"
      [] v.k = "list" -> "[...]"
      [] v.k = "dict" -> "{...}"

(***************************************************************************)
(* json.loads: a recursive-descent parse of the whole token sequence.      *)
(* ok = FALSE stands for json.JSONDecodeError.                             *)
(***************************************************************************)
ParseFail == [ok |-> FALSE, val |-> JNull, next |-> 0]
ParseOk(v, n) == [ok |-> TRUE, val |-> v, next |-> n]

RECURSIVE ParseValue(_, _), ParseElems(_, _, _), ParseMembers(_, _, _)
ParseValue(s, i) ==
    IF i > Len(s) THEN ParseFail
    ELSE LET tok == s[i] IN
         CASE tok.t = "s" -> ParseOk(JStr(tok.v), i + 1)
           [] tok.t = "n" -> ParseOk(JNum(tok.v), i + 1)
           [] tok.t = "w" ->
                IF tok.v = "null" THEN ParseOk(JNull, i + 1)
                ELSE IF tok.v \in {"true", "false"} THEN ParseOk(JBool(tok.v), i + 1)
                ELSE ParseFail
           [] tok = LBRACK ->
                IF i + 1 <= Len(s) /\ s[i + 1] = RBRACK
                THEN ParseOk(JList(<<>>), i + 2)
                ELSE ParseElems(s, i + 1, <<>>)
           [] tok = LBRACE ->
                IF i + 1 <= Len(s) /\ s[i + 1] = RBRACE
                THEN ParseOk(JDict(<<>>), i + 2)
                ELSE ParseMembers(s, i + 1, <<>>)
           [] OTHER -> ParseFail

ParseElems(s, i, acc) ==
    LET r == ParseValue(s, i) IN
    IF ~r.ok \/ r.next > Len(s) THEN ParseFail
    ELSE IF s[r.next] = COMMA THEN ParseElems(s, r.next + 1, Append(acc, r.val))
    ELSE IF s[r.next] = RBRACK THEN ParseOk(JList(Append(acc, r.val)), r.next + 1)
    ELSE ParseFail

ParseMembers(s, i, acc) ==
    IF i + 1 > Len(s) \/ s[i].t # "s" \/ s[i + 1] # COLON THEN ParseFail
    ELSE LET r == ParseValue(s, i + 2) IN
         IF ~r.ok \/ r.next > Len(s) THEN ParseFail
         ELSE IF s[r.next] = COMMA
              THEN ParseMembers(s, r.next + 1, Append(acc, <<s[i].v, r.val>>))
         ELSE IF s[r.next] = RBRACE
              THEN ParseOk(JDict(Append(acc, <<s[i].v, r.val>>)), r.next + 1)
         ELSE ParseFail

\* json.loads(text): the text must be exactly one value ("Extra data" fails)
json_loads(s) ==
    LET r == ParseValue(s, 1)
    IN  IF r.ok /\ r.next = Len(s) + 1 THEN r ELSE ParseFail

(***************************************************************************)
(* _extract_json_block: the greedy patterns \[[\s\S]*\] and \{[\s\S]*\}.   *)
(***************************************************************************)
IndicesOf(s, tok) == {i \in 1..Len(s) : s[i] = tok}
SetMin(A) == CHOOSE a \in A : \A b \in A : a <= b
SetMax(A) == CHOOSE a \in A : \A b \in A : a >= b

\* re.search of open[\s\S]*close: from the first open to the last close after it
GreedySpan(s, open, close) ==
    LET os == IndicesOf(s, open)
        cs == IndicesOf(s, close)
    IN  IF os # {} /\ cs # {} /\ SetMax(cs) > SetMin(os)
        THEN [found |-> TRUE, text |-> SubSeq(s, SetMin(os), SetMax(cs))]
        ELSE [found |-> FALSE, text |-> <<>>]

extract_json_block(text) ==
    LET a == GreedySpan(text, LBRACK, RBRACK)
        o == GreedySpan(text, LBRACE, RBRACE)
    IN  IF a.found THEN a.text
        ELSE IF o.found THEN o.text
        ELSE text

(***************************************************************************)
(* _extract_first_json_array / _extract_first_json_object: bracket-depth   *)
(* scanners that track quote state.  q is the open quote character ("" when*)
(* outside a string).  A complete string literal opens and closes its own  *)
(* quotes, so only a lone apostrophe or an unclosed double quote changes q.*)
(***************************************************************************)
QuoteAfter(q, tok) ==
    IF tok \in {APOS, DQUOTE}
    THEN IF q = "" THEN tok.v ELSE IF q = tok.v THEN "" ELSE q
    ELSE q

\* index of the token closing the bracket opened at the scan's start, 0 if none
RECURSIVE ScanClose(_, _, _, _, _, _)
ScanClose(s, i, depth, q, open, close) ==
    IF i > Len(s) THEN 0
    ELSE LET c == s[i] IN
         IF q # "" \/ c \in {APOS, DQUOTE}
         THEN ScanClose(s, i + 1, depth, QuoteAfter(q, c), open, close)
         ELSE IF c = open THEN ScanClose(s, i + 1, depth + 1, q, open, close)
         ELSE IF c = close
              THEN IF depth - 1 = 0 THEN i
                   ELSE ScanClose(s, i + 1, depth - 1, q, open, close)
         ELSE ScanClose(s, i + 1, depth, q, open, close)

extract_first_json_array(text) ==
    LET os == IndicesOf(text, LBRACK) IN
    IF os = {} THEN <<>>
    ELSE LET start == SetMin(os)
             e == ScanClose(text, start, 0, "", LBRACK, RBRACK)
         IN  IF e # 0 THEN SubSeq(text, start, e)
             ELSE SubSeq(text, start, Len(text))

\* start_pos counts the tokens already consumed; found = FALSE stands for None
extract_first_json_object(text, start_pos) ==
    LET os == {i \in IndicesOf(text, LBRACE) : i > start_pos} IN
    IF os = {} THEN [found |-> FALSE, sub |-> <<>>, next |-> 0]
    ELSE LET start == SetMin(os)
             e == ScanClose(text, start, 0, "", LBRACE, RBRACE)
         IN  IF e # 0
             THEN [found |-> TRUE, sub |-> SubSeq(text, start, e), next |-> e]
             ELSE [found |-> FALSE, sub |-> <<>>, next |-> 0]

\* a type test that lets every JSON value through
isinstance_dict_any(v) == TRUE

\* lines 164, 233, 283, 336: isinstance(x, dict)
isinstance_dict(v) == v.k = "dict"

\* the transaction-shaped test of _parse_transaction_objects_from_text
LooksLikeTransaction(d) ==
    HasKey(d, "amount") \/ (HasKey(d, "date") /\ HasKey(d, "description"))

RECURSIVE ParseObjectsFrom(_, _, _)
ParseObjectsFrom(text, pos, result) ==
    LET obj == extract_first_json_object(text, pos) IN
    IF ~obj.found THEN result
    ELSE LET d == json_loads(obj.sub) IN
         IF d.ok /\ isinstance_dict(d.val) /\ LooksLikeTransaction(d.val)
         THEN ParseObjectsFrom(text, obj.next, Append(result, d.val))
         ELSE ParseObjectsFrom(text, obj.next, result)

parse_transaction_objects_from_text(text) == ParseObjectsFrom(text, 0, <<>>)

(***************************************************************************)
(* Python string methods on the strings the model responses hold.  Every   *)
(* string not listed is already lower-case / has no surrounding blanks.    *)
(***************************************************************************)
Lower(x) ==
    CASE x = "Groceries"     -> "groceries"
      [] x = "Utilities"     -> "utilities"
      [] x = "Shopping"      -> "shopping"
      [] x = "Transfer"      -> "transfer"
      [] x = "Dining"        -> "dining"
      [] x = "Transport"     -> "transport"
      [] x = "Healthcare"    -> "healthcare"
      [] x = "Entertainment" -> "entertainment"
      [] x = "Other"         -> "other"
      [] x = "HEALTHCARE"    -> "healthcare"
      [] x = " Transport "   -> " transport "
      [] x = "Bogus"         -> "bogus"
      [] x = "None"          -> "none"
      [] x = "True"          -> "true"
      [] x = "False"         -> "false"
      [] x = "Credit"        -> "credit"
      [] x = "CR"            -> "cr"
      [] x = "Debit"         -> "debit"
      [] x = "Refund"        -> "refund"
      [] OTHER               -> x

Strip(x) ==
    CASE x = " Transport " -> "Transport"
      [] x = " transport " -> "transport"
      [] x = " rent "      -> "rent"
      [] OTHER             -> x

(***************************************************************************)
(* statement_agent.py constants.                                           *)
(***************************************************************************)
CATEGORIES ==
    << "Groceries", "Utilities", "Shopping", "Transfer", "Dining",
       "Transport", "Healthcare", "Entertainment", "Other" >>

EXTRACTION_TEXT_CAP == 100000
EXTRACTION_CHUNK_OVERLAP == 3000
FALLBACK_MIN_TEXT == 400

InCategories(cat) == \E i \in 1..Len(CATEGORIES) : CATEGORIES[i] = cat

(***************************************************************************)
(* Bounds of the model.                                                    *)
(***************************************************************************)
MaxChunks == 2      \* longest text: one that splits into MaxChunks chunks
MaxCatLen == 2      \* longest categorization response, in elements
MaxJobs   == 2      \* job ids the store can hand out
MaxRows   == 2      \* longest list given to transactions_to_csv alone
MaxPages  == 6      \* pages of the largest PDF

(***************************************************************************)
(* Model responses.                                                        *)
(***************************************************************************)
RECURSIVE Join(_, _)
Join(parts, sep) ==
    IF parts = <<>> THEN <<>>
    ELSE IF Len(parts) = 1 THEN parts[1]
    ELSE parts[1] \o <<sep>> \o Join(Tail(parts), sep)

Member(key, valueTok) == <<S(key), COLON, valueTok>>
Obj(members) == <<LBRACE>> \o Join(members, COMMA) \o <<RBRACE>>
Arr(elems)   == <<LBRACK>> \o Join(elems, COMMA) \o <<RBRACK>>

TxCoffee ==
    Obj(<< Member("date", S("01/02")), Member("description", S("coffee shop")),
           Member("amount", S("4.50")), Member("type", S("debit")) >>)
\* the same (date, description, amount) as TxCoffee, another type
TxCoffeeCredit ==
    Obj(<< Member("date", S("01/02")), Member("description", S("coffee shop")),
           Member("amount", S("4.50")), Member("type", S("Credit")) >>)
TxSalary ==
    Obj(<< Member("date", S("01/03")), Member("description", S("salary")),
           Member("amount", N("100")), Member("type", S("CR")) >>)
\* no date, no type
TxRent ==
    Obj(<< Member("description", S("rent")), Member("amount", S("900")) >>)

\* texts the model may return to an extraction or fallback prompt
ModelOutputs ==
    { Arr(<<>>),
      Arr(<<TxCoffee>>),
      Arr(<<TxCoffee, TxSalary>>),
      Arr(<<TxRent, TxCoffeeCredit, TxCoffee>>),
      Arr(<<TxSalary, <<N("5")>> >>),
      Arr(<< <<N("5")>> >>),
      \* other spellings of the type: lower case, padded, unknown, null
      Arr(<< Obj(<< Member("description", S("fee")), Member("amount", S("1")),
                    Member("type", S("credit")) >>),
             Obj(<< Member("description", S("fee")), Member("amount", S("2")),
                    Member("type", S(" credit ")) >>),
             Obj(<< Member("description", S("fee")), Member("amount", S("3")),
                    Member("type", S("Refund")) >>),
             Obj(<< Member("description", S("fee")), Member("amount", S("4")),
                    Member("type", W("null")) >>) >>),
      \* prose around the array
      <<W("Here"), APOS, W("s"), W("the"), W("list"), COLON>> \o Arr(<<TxRent>>)
          \o <<W("done")>>,
      \* output cut off inside the second object
      <<LBRACK>> \o TxCoffee
          \o <<COMMA, LBRACE, S("date"), COLON, DQUOTE, W("01/0")>>,
      \* a JSON object, not a list
      TxSalary,
      \* objects without an enclosing array
      TxCoffee \o TxSalary,
      \* no JSON at all
      <<W("No"), W("transactions"), W("found")>>,
      \* a complete array followed by prose that holds brackets
      Arr(<<TxCoffee>>) \o <<W("see"), W("note"), LBRACK, N("1"), RBRACK>> }

CatGroceries ==
    Obj(<< Member("description", S("coffee shop")), Member("amount", S("4.50")),
           Member("category", S("Groceries")) >>)
CatLower   == Obj(<< Member("category", S("dining")) >>)
CatPadded  == Obj(<< Member("category", S(" Transport ")) >>)
CatBogus   == Obj(<< Member("category", S("Bogus")) >>)
CatMissing == Obj(<< Member("description", S("salary")), Member("amount", S("100")) >>)
CatRent ==
    Obj(<< Member("description", S("rent")), Member("amount", S("900")),
           Member("category", S("Utilities")) >>)

CatElems ==
    { CatGroceries, CatLower, CatPadded, CatBogus, CatMissing, CatRent, <<N("7")>> }

Min(a, b) == IF a <= b THEN a ELSE b

\* the entries of the responses longer than two elements
CatLongElems == { CatGroceries, CatBogus, CatRent }

\* texts the model may return to the categorization prompt
CatOutputs ==
    { Arr(es) : es \in UNION { [1..n -> CatElems] : n \in 0..Min(MaxCatLen, 2) } }
    \cup { Arr(es) : es \in UNION { [1..n -> CatLongElems] : n \in 3..MaxCatLen } }
    \cup { <<W("Sorry"), W("I"), W("cannot")>>,
           CatGroceries,
           <<LBRACK>> \o CatGroceries
               \o <<COMMA, LBRACE, S("category"), COLON, DQUOTE, W("Din")>> }

\* raw_text: pad blanks around n other characters; strip() leaves the n
STRIDE == EXTRACTION_TEXT_CAP - EXTRACTION_CHUNK_OVERLAP
TextLens ==
    {0, FALLBACK_MIN_TEXT, FALLBACK_MIN_TEXT + 1}
    \cup { EXTRACTION_TEXT_CAP + j * STRIDE : j \in 0..(MaxChunks - 1) }
    \cup { EXTRACTION_TEXT_CAP + j * STRIDE + 1 : j \in 0..(MaxChunks - 2) }
RawTexts == { [pad |-> p, n |-> n] : p \in 0..1, n \in TextLens }

(***************************************************************************)
(* State.                                                                  *)
(***************************************************************************)
VARIABLES
    \* extract_and_categorize (one call)
    apc,                \* position in the call
    text_len,           \* len(text_trimmed)
    start,              \* the chunking loop's start
    chunks,             \* <<[from, to]>>: text_trimmed[from:to]
    chunk_idx,          \* next chunk to send (1-based)
    chunk_out,          \* out: the response to the latest chunk call
    all_transactions,   \* values collected from the chunk responses
    transactions,       \* after dedup / fallback
    normalized,         \* the five-field records
    categorized,        \* the parsed categorization response
    result,             \* the returned list
    calls,              \* model calls issued so far: [kind, shape], in order
    exc                 \* the exception the call raised ("" for none)

avars == << apc, text_len, start, chunks, chunk_idx, chunk_out, all_transactions,
            transactions, normalized, categorized, result, calls, exc >>

VARIABLES
    \* extract_text_from_pdf (one call)
    ppc,            \* position in extract_text_from_pdf
    pdf,            \* the file and the arguments: [pages, method], and what
                    \* pdfplumber and pypdf read in the file
    env,            \* installed dependencies and the API key
    text,           \* the direct text kept at line 65
    dpi,            \* chosen at line 284
    vision_only,    \* line 281 / 283
    tmp_exists,     \* the temporary PDF file is on disk
    tmp_path,       \* _pdf_to_images' tmp_path is set
    pending,        \* what _pdf_to_images is about to return or raise
    images,         \* number of rendered page images
    ocr_text,
    vision_text,
    presult,        \* the returned text
    pexc,           \* the raised exception, [type, msg, cause]
    pcalls          \* external steps run so far: "render", "ocr", "vision"

pvars == << ppc, pdf, env, text, dpi, vision_only, tmp_exists, tmp_path, pending,
            images, ocr_text, vision_text, presult, pexc, pcalls >>

VARIABLES
    \* the job store and the requests in flight
    jobs,       \* store.jobs: job id -> [transactions, csv_content]
    issued,     \* ids create_job_id has returned
    put_log,    \* what set_job was called with, per id
    req         \* per slot: the request being served

svars == << jobs, issued, put_log, req >>

VARIABLES
    \* transactions_to_csv (one call)
    cpc,        \* "idle" or "returned"
    csv_in,     \* the transactions argument
    csv_out     \* the text returned

cvars == << cpc, csv_in, csv_out >>

vars == << avars, pvars, svars, cvars >>

(***************************************************************************)
(* extract_and_categorize: the pure steps.  A step that would raise gives  *)
(* exc # "".                                                               *)
(***************************************************************************)
Ok(v)     == [exc |-> "", val |-> v]
Raise(e)  == [exc |-> e, val |-> <<>>]

\* lines 221-227: what one chunk response adds to all_transactions
ChunkTransactions(out) ==
    LET chunk_tx == json_loads(extract_json_block(out))
    IN  IF chunk_tx.ok /\ isinstance_list(chunk_tx.val) THEN chunk_tx.val.items
        ELSE <<>>

TxKey(t) ==
    << PyStr(DictGet(t, "date", JStr(""))),
       PyStr(DictGet(t, "description", JStr(""))),
       PyStr(DictGet(t, "amount", JStr(""))) >>

RECURSIVE DedupeLoop(_, _, _, _)
DedupeLoop(all, i, seen, out) ==
    IF i > Len(all) THEN Ok(out)
    ELSE LET t == all[i] IN
         IF ~isinstance_dict(t) THEN DedupeLoop(all, i + 1, seen, out)
         ELSE IF ~HasGetAttr(t) THEN Raise("AttributeError")
         ELSE IF TxKey(t) \in seen THEN DedupeLoop(all, i + 1, seen, out)
         ELSE DedupeLoop(all, i + 1, seen \cup {TxKey(t)}, Append(out, t))

Dedupe(all) == DedupeLoop(all, 1, {}, <<>>)

\* lines 263-276: the fallback response replaces transactions, or leaves it
FallbackTransactions(fallback_out, current) ==
    LET first_array   == extract_first_json_array(fallback_out)
        fallback_json == IF first_array = <<>> THEN extract_json_block(fallback_out)
                         ELSE first_array
        fallback_list == json_loads(fallback_json)
    IN  IF fallback_list.ok
        THEN IF isinstance_list(fallback_list.val) /\ Len(fallback_list.val.items) > 0
             THEN fallback_list.val.items
             ELSE current
        ELSE LET objs == parse_transaction_objects_from_text(fallback_out)
             IN  IF objs # <<>> THEN objs ELSE current

\* a comparison that skips lower()
NormalizeType_exact(t) ==
    IF PyStr(DictGet(t, "type", JStr("debit"))) \in {"credit", "cr"}
    THEN "credit" ELSE "debit"

\* line 290
NormalizeType(t) ==
    IF Lower(PyStr(DictGet(t, "type", JStr("debit")))) \in {"credit", "cr"}
    THEN "credit" ELSE "debit"

NormalizeOne(t) ==
    [ date        |-> PyStr(DictGet(t, "date", JStr(""))),
      description |-> PyStr(DictGet(t, "description", JStr(""))),
      amount      |-> PyStr(DictGet(t, "amount", JStr(""))),
      type        |-> NormalizeType(t),
      category    |-> "" ]

RECURSIVE NormalizeLoop(_, _, _)
NormalizeLoop(txs, i, out) ==
    IF i > Len(txs) THEN Ok(out)
    ELSE IF ~isinstance_dict(txs[i]) THEN NormalizeLoop(txs, i + 1, out)
    ELSE IF ~HasGetAttr(txs[i]) THEN Raise("AttributeError")
    ELSE NormalizeLoop(txs, i + 1, Append(out, NormalizeOne(txs[i])))

Normalize(txs) == NormalizeLoop(txs, 1, <<>>)

\* lines 325-331
ParseCategorized(cat_out) ==
    LET r == json_loads(extract_json_block(cat_out))
    IN  IF r.ok /\ isinstance_list(r.val) THEN r.val.items ELSE <<>>

\* a coercion that keeps whatever the model wrote
CoerceCategory_kept(raw) == Strip(raw)

\* lines 339-347
CoerceCategory(raw) ==
    LET cat     == Strip(raw)
        matches == {i \in 1..Len(CATEGORIES) : Lower(CATEGORIES[i]) = Lower(cat)}
    IN  IF InCategories(cat) THEN cat
        ELSE IF matches # {} THEN CATEGORIES[SetMin(matches)]
        ELSE "Other"

DEFAULT_CATEGORY == "Other"

\* no default: the category stays as normalization left it
WithDefaultCategory_none(txs) == txs

\* lines 334-335
WithDefaultCategory(txs) ==
    [i \in 1..Len(txs) |-> [txs[i] EXCEPT !.category = DEFAULT_CATEGORY]]

\* lines 352-357: the first transaction with this description and amount
MatchByKey(txs, c) ==
    LET desc == Strip(PyStr(DictGet(c, "description", JStr(""))))
        amt  == Strip(PyStr(DictGet(c, "amount", JStr(""))))
    IN  {j \in 1..Len(txs) :
            Strip(txs[j].description) = desc /\ Strip(txs[j].amount) = amt}

RECURSIVE AssignLoop(_, _, _)
AssignLoop(txs, cats, i) ==
    IF i > Len(cats) THEN Ok(txs)
    ELSE LET c == cats[i] IN
         IF ~isinstance_dict(c) THEN AssignLoop(txs, cats, i + 1)
         ELSE IF ~HasGetAttr(c) THEN Raise("TypeError")
         ELSE IF ~HasKey(c, "category") THEN AssignLoop(txs, cats, i + 1)
         ELSE LET cat == CoerceCategory(PyStr(DictGet(c, "category", JStr(""))))
                  js  == MatchByKey(txs, c)
              IN  IF i <= Len(txs)
                  THEN AssignLoop([txs EXCEPT ![i].category = cat], cats, i + 1)
                  ELSE IF js # {}
                  THEN AssignLoop([txs EXCEPT ![SetMin(js)].category = cat], cats, i + 1)
                  ELSE AssignLoop(txs, cats, i + 1)

AssignCategories(txs, cats) == AssignLoop(WithDefaultCategory(txs), cats, 1)

(***************************************************************************)
(* extract_and_categorize: the call, one action per model call or loop.    *)
(***************************************************************************)
AgentInit ==
    /\ apc = "idle"
    /\ text_len = 0
    /\ start = 0
    /\ chunks = <<>>
    /\ chunk_idx = 1
    /\ chunk_out = <<>>
    /\ all_transactions = <<>>
    /\ transactions = <<>>
    /\ normalized = <<>>
    /\ categorized = <<>>
    /\ result = <<>>
    /\ calls = <<>>
    /\ exc = ""

\* What the model returned to a call, seen as a whole: a JSON list, another
\* JSON value, or text that is not one JSON value; "error" when the call
\* itself failed.
Shape(out) ==
    LET r == json_loads(out) IN
    IF ~r.ok THEN "not_json" ELSE IF isinstance_list(r.val) THEN "json_list"
    ELSE "json_other"
Call(kind, shape) == [kind |-> kind, shape |-> shape]

\* text_trimmed[from:to]
Slice(from, to, len) == [from |-> from, to |-> Min(to, len)]

\* the next chunk starting where the previous one ended
NextStart_gap(end) == end

\* line 214
NextStart(end) == end - EXTRACTION_CHUNK_OVERLAP

\* a loop exit that misses the chunk ending exactly at the end of the text
ChunkIsLast_strict(end, len) == end > len

\* line 212
ChunkIsLast(end, len) == end >= len

\* lines 176-177, 202-208: the blank-text return, strip, the single chunk
AgentStartWith(raw) ==
    /\ IF raw.n = 0
       THEN /\ apc' = "done"
            /\ UNCHANGED << text_len, chunks >>
       ELSE /\ text_len' = raw.n
            /\ IF raw.n <= EXTRACTION_TEXT_CAP
               THEN /\ chunks' = << Slice(0, raw.n, raw.n) >>
                    /\ apc' = "extract"
               ELSE /\ chunks' = <<>>
                    /\ apc' = "chunking"
    /\ UNCHANGED << start, chunk_idx, all_transactions, transactions, normalized,
                    categorized, result, calls, exc >>
    /\ UNCHANGED << chunk_out, pvars, svars, cvars >>

AgentStart ==
    /\ apc = "idle"
    /\ \E raw \in RawTexts : AgentStartWith(raw)

\* lines 209-214: one iteration of the chunking loop
ChunkStep ==
    /\ apc = "chunking"
    /\ IF start < text_len
       THEN LET end == start + EXTRACTION_TEXT_CAP IN
            /\ chunks' = Append(chunks, Slice(start, end, text_len))
            /\ IF ChunkIsLast(end, text_len)
               THEN apc' = "extract" /\ UNCHANGED start
               ELSE apc' = "chunking" /\ start' = NextStart(end)
       ELSE apc' = "extract" /\ UNCHANGED << start, chunks >>
    /\ UNCHANGED << text_len, chunk_idx, all_transactions, transactions, normalized,
                    categorized, result, calls, exc >>
    /\ UNCHANGED << chunk_out, pvars, svars, cvars >>

\* lines 217-228: one primary extraction call and its parse
ExtractChunk ==
    /\ apc = "extract"
    /\ chunk_idx <= Len(chunks)
    /\ \E out \in ModelOutputs :
         /\ calls' = Append(calls, Call("extract", Shape(out)))
         /\ chunk_out' = out
         /\ all_transactions' = all_transactions \o ChunkTransactions(out)
    /\ chunk_idx' = chunk_idx + 1
    /\ UNCHANGED << apc, text_len, start, chunks, transactions, normalized,
                    categorized, result, exc >>
    /\ UNCHANGED << pvars, svars, cvars >>

\* line 219: chain.invoke raises (network, authentication, rate limit)
ExtractCallFails ==
    /\ apc = "extract"
    /\ chunk_idx <= Len(chunks)
    /\ calls' = Append(calls, Call("extract", "error"))
    /\ exc' = "LLMError"
    /\ apc' = "raised"
    /\ UNCHANGED << text_len, start, chunks, chunk_idx, all_transactions,
                    transactions, normalized, categorized, result >>
    /\ UNCHANGED << chunk_out, pvars, svars, cvars >>

\* a test that looks at the length of the text only
NeedsFallback_long(txs, len) == len > FALLBACK_MIN_TEXT

\* line 247
NeedsFallback(txs, len) == Len(txs) = 0 /\ len > FALLBACK_MIN_TEXT

\* lines 229-247: dedup, then the choice of the fallback prompt
DedupeStep ==
    /\ apc = "extract"
    /\ chunk_idx > Len(chunks)
    /\ LET d == Dedupe(all_transactions) IN
       IF d.exc # ""
       THEN /\ exc' = d.exc
            /\ apc' = "raised"
            /\ UNCHANGED transactions
       ELSE /\ transactions' = d.val
            /\ apc' = IF NeedsFallback(d.val, text_len)
                      THEN "fallback" ELSE "normalize"
            /\ UNCHANGED exc
    /\ all_transactions' = <<>>      \* not read again
    /\ chunk_out' = <<>>             \* local to the loop
    /\ UNCHANGED << text_len, start, chunks, chunk_idx, normalized, categorized,
                    result, calls >>
    /\ UNCHANGED << pvars, svars, cvars >>

\* lines 262-276: the fallback call and its parse
Fallback ==
    /\ apc = "fallback"
    /\ \E out \in ModelOutputs :
         /\ calls' = Append(calls, Call("fallback", Shape(out)))
         /\ transactions' = FallbackTransactions(out, transactions)
    /\ apc' = "normalize"
    /\ UNCHANGED << text_len, start, chunks, chunk_idx, all_transactions,
                    normalized, categorized, result, exc >>
    /\ UNCHANGED << chunk_out, pvars, svars, cvars >>

\* lines 277-278: a failing fallback call is logged and dropped
FallbackCallFails ==
    /\ apc = "fallback"
    /\ calls' = Append(calls, Call("fallback", "error"))
    /\ apc' = "normalize"
    /\ UNCHANGED << text_len, start, chunks, chunk_idx, all_transactions,
                    transactions, normalized, categorized, result, exc >>
    /\ UNCHANGED << chunk_out, pvars, svars, cvars >>

\* lines 280-295
NormalizeStep ==
    /\ apc = "normalize"
    /\ IF transactions = <<>>
       THEN /\ apc' = "done"
            /\ result' = <<>>
            /\ UNCHANGED << normalized, exc >>
       ELSE LET n == Normalize(transactions) IN
            IF n.exc # ""
            THEN /\ exc' = n.exc
                 /\ apc' = "raised"
                 /\ UNCHANGED << normalized, result >>
            ELSE /\ normalized' = n.val
                 /\ apc' = "categorize"
                 /\ UNCHANGED << result, exc >>
    /\ UNCHANGED << text_len, start, chunks, chunk_idx, all_transactions,
                    transactions, categorized, calls >>
    /\ UNCHANGED << chunk_out, pvars, svars, cvars >>

\* lines 323-360: the categorization call, the matching, the return
CategorizeWith(out) ==
    /\ calls' = Append(calls, Call("categorize", Shape(out)))
    /\ categorized' = ParseCategorized(out)
    /\ LET a == AssignCategories(normalized, ParseCategorized(out)) IN
       IF a.exc # ""
       THEN /\ exc' = a.exc
            /\ apc' = "raised"
            /\ UNCHANGED result
       ELSE /\ result' = a.val
            /\ apc' = "done"
            /\ UNCHANGED exc

Categorize ==
    /\ apc = "categorize"
    /\ \E out \in CatOutputs : CategorizeWith(out)
    /\ UNCHANGED << text_len, start, chunks, chunk_idx, all_transactions,
                    transactions, normalized >>
    /\ UNCHANGED << chunk_out, pvars, svars, cvars >>

\* line 323: chain.invoke raises
CategorizeCallFails ==
    /\ apc = "categorize"
    /\ calls' = Append(calls, Call("categorize", "error"))
    /\ exc' = "LLMError"
    /\ apc' = "raised"
    /\ UNCHANGED << text_len, start, chunks, chunk_idx, all_transactions,
                    transactions, normalized, categorized, result >>
    /\ UNCHANGED << chunk_out, pvars, svars, cvars >>

AgentNext ==
    \/ AgentStart
    \/ ChunkStep
    \/ ExtractChunk
    \/ ExtractCallFails
    \/ DedupeStep
    \/ Fallback
    \/ FallbackCallFails
    \/ NormalizeStep
    \/ Categorize
    \/ CategorizeCallFails

(***************************************************************************)
(* extract_text_from_pdf (services/pdf_processor.py).                      *)
(*                                                                         *)
(* A text is [src, n, pad]: who produced it, len(text), and how many of    *)
(* its characters are leading or trailing blanks; n = 0 is "".             *)
(***************************************************************************)
MIN_TEXT_PER_PAGE == 100
OCR_DPI == 300
VISION_DPI == 150
VISION_ONLY_MAX_PAGES == 5
PYPDF_RETRY_BELOW == 50

EMPTY == [src |-> "none", n |-> 0, pad |-> 0]
Text(src, n, pad) == IF n = 0 THEN EMPTY ELSE [src |-> src, n |-> n, pad |-> pad]
\* text.strip()
StripText(t) == Text(t.src, t.n - t.pad, 0)

NoExc == [type |-> "", msg |-> "", cause |-> ""]

PdfInit ==
    /\ ppc = "idle"
    /\ pdf = [pages |-> 0, method |-> "auto", plumber |-> EMPTY, pypdf |-> EMPTY]
    /\ env = [api_key |-> FALSE, groq |-> FALSE, poppler |-> FALSE, tesseract |-> FALSE]
    /\ text = EMPTY
    /\ dpi = 0
    /\ vision_only = FALSE
    /\ tmp_exists = FALSE
    /\ tmp_path = FALSE
    /\ pending = NoExc
    /\ images = 0
    /\ ocr_text = EMPTY
    /\ vision_text = EMPTY
    /\ presult = EMPTY
    /\ pexc = NoExc
    /\ pcalls = <<>>

Envs == [api_key : BOOLEAN, groq : BOOLEAN, poppler : BOOLEAN, tesseract : BOOLEAN]
\* scanned_method: None (auto), "ocr", "vision"
Methods == {"auto", "ocr", "vision"}

\* what a text-layer parser may give for a PDF of `pages` pages
DirectTexts(src, pages) ==
    { Text(src, n, 0) : n \in {0, PYPDF_RETRY_BELOW - 1, PYPDF_RETRY_BELOW,
                               MIN_TEXT_PER_PAGE * pages - 1,
                               MIN_TEXT_PER_PAGE * pages} }
    \cup { Text(src, MIN_TEXT_PER_PAGE * pages + 2, MIN_TEXT_PER_PAGE * pages - 40) }
OcrTexts    == { EMPTY, Text("ocr", 500, 2) }
VisionTexts == { EMPTY, Text("vision", 300, 0), Text("vision", 800, 0) }

\* no second parser
BestDirect_primary(plumber, pypdf) == plumber

\* lines 60-63
BestDirect(plumber, pypdf) ==
    IF plumber.n = 0 \/ StripText(plumber).n < PYPDF_RETRY_BELOW THEN pypdf ELSE plumber

\* lines 65-66: len(text) / pages < MIN_TEXT_PER_PAGE
IsScanned(t, pages) == t.n < MIN_TEXT_PER_PAGE * pages

\* lines 52-71, up to the choice of route
PdfStartWith(pages, method, e, plumber, pypdf) ==
    /\ pdf' = [pages |-> pages, method |-> method, plumber |-> plumber,
               pypdf |-> pypdf]
    /\ env' = e
    /\ IF pages = 0
       THEN /\ ppc' = "returned"
            /\ presult' = EMPTY
            /\ UNCHANGED text
       ELSE LET best == BestDirect(plumber, pypdf) IN
            /\ text' = best
            /\ IF IsScanned(best, pages)
               THEN ppc' = "scanned" /\ UNCHANGED presult
               ELSE ppc' = "returned" /\ presult' = best
    /\ UNCHANGED << dpi, vision_only, tmp_exists, tmp_path, pending, images,
                    ocr_text, vision_text, pexc, pcalls >>
    /\ UNCHANGED << avars, svars, cvars >>

PdfStart ==
    /\ ppc = "idle"
    /\ \E pages \in 0..MaxPages, method \in Methods, e \in Envs :
         \E plumber \in (IF pages = 0 THEN {EMPTY} ELSE DirectTexts("pdfplumber", pages)),
            pypdf \in (IF pages = 0 THEN {EMPTY} ELSE DirectTexts("pypdf", pages)) :
              PdfStartWith(pages, method, e, plumber, pypdf)

force_ocr    == pdf.method = "ocr"
force_vision == pdf.method = "vision"

\* lines 280-283
VisionOnly(pages, method) ==
    IF method = "auto" THEN pages <= VISION_ONLY_MAX_PAGES ELSE method = "vision"

\* line 284
ChooseDpi(vonly, method) ==
    IF vonly \/ method = "vision" THEN VISION_DPI ELSE OCR_DPI

\* lines 277-284
ScannedSetup ==
    /\ ppc = "scanned"
    /\ vision_only' = VisionOnly(pdf.pages, pdf.method)
    /\ dpi' = ChooseDpi(VisionOnly(pdf.pages, pdf.method), pdf.method)
    /\ ppc' = "tmp_create"
    /\ UNCHANGED << pdf, env, text, tmp_exists, tmp_path, pending, images, ocr_text,
                    vision_text, presult, pexc, pcalls >>
    /\ UNCHANGED << avars, svars, cvars >>

(***************************************************************************)
(* _pdf_to_images, lines 170-193.                                          *)
(***************************************************************************)
\* lines 181-187: the RuntimeError built from the caught exception
RenderError(mentions_poppler, mentions_page_count, cause) ==
    IF mentions_poppler \/ mentions_page_count
    THEN [type |-> "RuntimeError", msg |-> "poppler_hint", cause |-> cause]
    ELSE [type |-> "RuntimeError", msg |-> "pdf_to_image_failed", cause |-> cause]

\* line 175: the file is created; or creating it fails (OSError)
TmpCreate(ok) ==
    /\ ppc = "tmp_create"
    /\ IF ok
       THEN tmp_exists' = TRUE /\ ppc' = "tmp_write" /\ UNCHANGED pending
       ELSE /\ pending' = RenderError(FALSE, FALSE, "io")
            /\ ppc' = "finally"
            /\ UNCHANGED tmp_exists
    /\ UNCHANGED << pdf, env, text, dpi, vision_only, tmp_path, images, ocr_text,
                    vision_text, presult, pexc, pcalls >>
    /\ UNCHANGED << avars, svars, cvars >>

\* lines 176-178: tmp_path is assigned only after write and flush succeeded
TmpWrite(ok) ==
    /\ ppc = "tmp_write"
    /\ IF ok
       THEN tmp_path' = TRUE /\ ppc' = "render" /\ UNCHANGED pending
       ELSE /\ pending' = RenderError(FALSE, FALSE, "io")
            /\ ppc' = "finally"
            /\ UNCHANGED tmp_path
    /\ UNCHANGED << pdf, env, text, dpi, vision_only, tmp_exists, images, ocr_text,
                    vision_text, presult, pexc, pcalls >>
    /\ UNCHANGED << avars, svars, cvars >>

\* line 179: convert_from_path.  Without poppler pdf2image raises "Unable to
\* get page count. Is poppler installed and in PATH?"; with it, pdfinfo may
\* still fail ("Unable to get page count." plus its stderr) or the rendering
\* may fail with another message.
Render(ok, n, mentions_page_count) ==
    /\ ppc = "render"
    /\ pcalls' = Append(pcalls, "render")
    /\ ppc' = "finally"
    /\ IF ~env.poppler
       THEN /\ pending' = RenderError(TRUE, TRUE, "poppler_missing")
            /\ UNCHANGED images
       ELSE IF ok
       THEN /\ images' = n
            /\ UNCHANGED pending
       ELSE /\ pending' = RenderError(FALSE, mentions_page_count, "render_failed")
            /\ UNCHANGED images
    /\ UNCHANGED << pdf, env, text, dpi, vision_only, tmp_exists, tmp_path, ocr_text,
                    vision_text, presult, pexc >>
    /\ UNCHANGED << avars, svars, cvars >>

\* lines 188-193: the finally block, then the return or the raise
TmpCleanup(unlink_ok) ==
    /\ ppc = "finally"
    /\ tmp_exists' = IF tmp_path /\ tmp_exists /\ unlink_ok THEN FALSE ELSE tmp_exists
    /\ IF pending # NoExc
       THEN pexc' = pending /\ ppc' = "raised"
       ELSE UNCHANGED pexc /\ ppc' = "images"
    /\ UNCHANGED << pdf, env, text, dpi, vision_only, tmp_path, pending, images,
                    ocr_text, vision_text, presult, pcalls >>
    /\ UNCHANGED << avars, svars, cvars >>

(***************************************************************************)
(* _extract_text_scanned after the rendering, lines 287-330.               *)
(***************************************************************************)
\* lines 224-232: _extract_text_vision gives "" without a key or the client
VisionAvailable(e) == e.api_key /\ e.groq

\* lines 300-307, 314-321: the exception an OCR failure ends as
OcrError(mentions_tesseract, cause) ==
    IF mentions_tesseract
    THEN [type |-> "RuntimeError", msg |-> "tesseract_hint", cause |-> cause]
    ELSE [type |-> "Original", msg |-> "original", cause |-> cause]

\* lines 326-330
PickBest(ocr, vision) ==
    IF vision.n # 0 /\ StripText(vision).n > StripText(ocr).n
    THEN StripText(vision) ELSE ocr

\* lines 287-288
NoImages ==
    /\ ppc = "images"
    /\ images = 0
    /\ presult' = EMPTY
    /\ ppc' = "returned"
    /\ UNCHANGED << pdf, env, text, dpi, vision_only, tmp_exists, tmp_path, pending,
                    images, ocr_text, vision_text, pexc, pcalls >>
    /\ UNCHANGED << avars, svars, cvars >>

\* lines 289-293: the vision-only route
VisionRoute(v) ==
    /\ ppc = "images"
    /\ images > 0
    /\ force_vision \/ (vision_only /\ ~force_ocr)
    /\ pcalls' = Append(pcalls, "vision")
    /\ vision_text' = IF VisionAvailable(env) THEN v ELSE EMPTY
    /\ presult' = StripText(IF VisionAvailable(env) THEN v ELSE EMPTY)
    /\ ppc' = "returned"
    /\ UNCHANGED << pdf, env, text, dpi, vision_only, tmp_exists, tmp_path, pending,
                    images, ocr_text, pexc >>
    /\ UNCHANGED << avars, svars, cvars >>

\* lines 294-307 (OCR only) and 309-321 (auto, OCR first).  Without Tesseract
\* pytesseract raises "tesseract is not installed or it's not in your PATH";
\* with it, OCR may still fail, and the message may name tesseract.
OcrRoute(ok, t, mentions_tesseract) ==
    /\ ppc = "images"
    /\ images > 0
    /\ ~(force_vision \/ (vision_only /\ ~force_ocr))
    /\ pcalls' = Append(pcalls, "ocr")
    /\ IF ~env.tesseract
       THEN /\ pexc' = OcrError(TRUE, "tesseract_missing")
            /\ ppc' = "raised"
            /\ UNCHANGED << ocr_text, presult >>
       ELSE IF ~ok
       THEN /\ pexc' = OcrError(mentions_tesseract, "ocr_failed")
            /\ ppc' = "raised"
            /\ UNCHANGED << ocr_text, presult >>
       ELSE /\ ocr_text' = t
            /\ UNCHANGED pexc
            /\ IF force_ocr
               THEN presult' = t /\ ppc' = "returned"
               ELSE UNCHANGED presult /\ ppc' = "auto_vision"
    /\ UNCHANGED << pdf, env, text, dpi, vision_only, tmp_exists, tmp_path, pending,
                    images, vision_text >>
    /\ UNCHANGED << avars, svars, cvars >>

\* lines 322-330: auto with both methods, the longer text wins
AutoVision(v) ==
    /\ ppc = "auto_vision"
    /\ pcalls' = Append(pcalls, "vision")
    /\ vision_text' = IF VisionAvailable(env) THEN v ELSE EMPTY
    /\ presult' = PickBest(ocr_text, IF VisionAvailable(env) THEN v ELSE EMPTY)
    /\ ppc' = "returned"
    /\ UNCHANGED << pdf, env, text, dpi, vision_only, tmp_exists, tmp_path, pending,
                    images, ocr_text, pexc >>
    /\ UNCHANGED << avars, svars, cvars >>

PdfNext ==
    \/ PdfStart
    \/ ScannedSetup
    \/ \E ok \in BOOLEAN : TmpCreate(ok)
    \/ \E ok \in BOOLEAN : TmpWrite(ok)
    \/ \E ok \in BOOLEAN, n \in {0, pdf.pages}, m \in BOOLEAN : Render(ok, n, m)
    \/ \E unlink_fails \in BOOLEAN : TmpCleanup(~unlink_fails)
    \/ NoImages
    \/ \E v \in VisionTexts : VisionRoute(v)
    \/ \E ok \in BOOLEAN, t \in OcrTexts, m \in BOOLEAN : OcrRoute(ok, t, m)
    \/ \E v \in VisionTexts : AutoVision(v)

(***************************************************************************)
(* transactions_to_csv (services/csv_export.py).  A CSV text is a sequence *)
(* of pieces: each of the characters , " CR LF on its own, and runs of     *)
(* other characters.                                                       *)
(***************************************************************************)
FIELDNAMES == << "date", "description", "amount", "type", "category" >>

\* the characters of a field value, as pieces
Pieces(x) ==
    CASE x = ""              -> << >>
      [] x = "salary, bonus" -> << "salary", ",", " bonus" >>
      [] x = "say \"hi\""    -> << "say ", "\"", "hi", "\"" >>
      [] x = "line1\nline2"  -> << "line1", "\n", "line2" >>
      [] x = "a\rb"          -> << "a", "\r", "b" >>
      [] OTHER               -> << x >>

\* csv's QUOTE_MINIMAL: a field holding the delimiter, the quote character
\* or a character of the line terminator is quoted
CsvNeedsQuote(ps) == \E i \in 1..Len(ps) : ps[i] \in {",", "\"", "\r", "\n"}

\* quote characters written once
CsvEscape_single(ps) == ps

\* doublequote: a quote character inside a field is written twice
RECURSIVE CsvEscape(_)
CsvEscape(ps) ==
    IF ps = << >> THEN << >>
    ELSE (IF Head(ps) = "\"" THEN << "\"", "\"" >> ELSE << Head(ps) >>)
         \o CsvEscape(Tail(ps))

CsvField(x) ==
    LET ps == Pieces(x) IN
    IF CsvNeedsQuote(ps) THEN << "\"" >> \o CsvEscape(ps) \o << "\"" >> ELSE ps

\* writer.writerow: the fields joined by commas, then the line terminator
CsvLine(values, eol) ==
    Join([i \in 1..Len(values) |-> CsvField(values[i])], ",") \o eol

\* a row of the fields the transaction has, the absent ones left out
CsvRow_present(row) ==
    LET names == SelectSeq(FIELDNAMES, LAMBDA name : name \in DOMAIN row)
    IN  CsvLine([i \in 1..Len(names) |-> row[names[i]]], << "\r", "\n" >>)

\* lines 20-28: row.get(name, "") for the five columns, in order
CsvRow(row) ==
    CsvLine([i \in 1..Len(FIELDNAMES) |->
                IF FIELDNAMES[i] \in DOMAIN row THEN row[FIELDNAMES[i]] ELSE ""],
            << "\r", "\n" >>)

RECURSIVE CsvRows(_)
CsvRows(txs) == IF txs = << >> THEN << >> ELSE CsvRow(Head(txs)) \o CsvRows(Tail(txs))

\* lines 9-10: the literal header for an empty list; 12-29 otherwise
transactions_to_csv(txs) ==
    IF txs = << >>
    THEN << "date", ",", "description", ",", "amount", ",", "type", ",",
            "category", "\n" >>
    ELSE CsvLine(FIELDNAMES, << "\r", "\n" >>) \o CsvRows(txs)

CsvInit ==
    /\ cpc = "idle"
    /\ csv_in = << >>
    /\ csv_out = << >>

\* rows a caller may pass: the five fields, fewer, none, one more
CsvDicts ==
    { [ date |-> "01/02", description |-> "coffee shop", amount |-> "4.50",
        type |-> "debit", category |-> "Dining" ],
      [ date |-> "01/03", description |-> "salary, bonus", amount |-> "100",
        type |-> "credit", category |-> "Other" ],
      [ date |-> "01/04", description |-> "say \"hi\"", amount |-> "1",
        type |-> "debit", category |-> "Other" ],
      [ date |-> "01/05", description |-> "line1\nline2", amount |-> "2",
        type |-> "debit", category |-> "Other" ],
      [ date |-> "01/06", description |-> "a\rb", amount |-> "3",
        type |-> "debit", category |-> "Other" ],
      [ date |-> "", description |-> "", amount |-> "", type |-> "",
        category |-> "" ],
      [ date |-> "01/07", description |-> "rent", amount |-> "900",
        type |-> "debit" ],
      [ description |-> "rent", amount |-> "900" ],
      [ date |-> "01/08", description |-> " padded ", amount |-> "5",
        type |-> "debit", category |-> "Other", balance |-> "12.00" ],
      << >> }

\* one call of transactions_to_csv
ToCsv ==
    /\ cpc = "idle"
    /\ \E txs \in UNION { [1..n -> CsvDicts] : n \in 0..MaxRows } :
         /\ csv_in' = txs
         /\ csv_out' = transactions_to_csv(txs)
    /\ cpc' = "returned"
    /\ UNCHANGED << avars, pvars, svars >>

\* the caller takes the text; the next call may start
CsvDone ==
    /\ cpc = "returned"
    /\ cpc' = "idle"
    /\ csv_in' = << >>
    /\ csv_out' = << >>
    /\ UNCHANGED << avars, pvars, svars >>

CsvNext == ToCsv \/ CsvDone

(***************************************************************************)
(* The job store (store.py) and the HTTP handlers (main.py).               *)
(***************************************************************************)
JobIds == 1..MaxJobs
Slots  == 1..2          \* requests in flight at once

NoJob == [transactions |-> <<>>, csv_content |-> <<>>]

\* a put that rebuilds the map with the new job alone
set_job_alone(js, job_id, txs, csv_content) ==
    [i \in {job_id} |-> [transactions |-> txs, csv_content |-> csv_content]]

\* a put that stores nothing
set_job_dropped(js, job_id, txs, csv_content) == js

\* store.py lines 12-16
set_job(js, job_id, txs, csv_content) ==
    [i \in DOMAIN js \cup {job_id} |->
        IF i = job_id THEN [transactions |-> txs, csv_content |-> csv_content]
        ELSE js[i]]

\* a lookup that answers an unknown id with an empty job
get_job_default(js, job_id) ==
    [found |-> TRUE, job |-> IF job_id \in DOMAIN js THEN js[job_id] ELSE NoJob]

\* store.py lines 19-20; found = FALSE stands for None
get_job(js, job_id) ==
    IF job_id \in DOMAIN js THEN [found |-> TRUE, job |-> js[job_id]]
    ELSE [found |-> FALSE, job |-> NoJob]

\* store.py lines 8-9: uuid4 never repeats an id
create_job_id(used) == JobIds \ used

MAX_FILE_SIZE == 20 * 1024 * 1024
ALLOWED_CONTENT_TYPE == "application/pdf"

Idle ==
    [ kind |-> "none", pc |-> "idle", file |-> [content_type |-> "", size |-> 0],
      blank |-> FALSE, transactions |-> <<>>, csv_content |-> <<>>, job_id |-> 0,
      found |-> FALSE, job |-> NoJob, was_put |-> FALSE, llm_calls |-> 0,
      passed |-> {}, puts |-> 0, status |-> 0 ]

StoreInit ==
    /\ jobs = << >>
    /\ issued = {}
    /\ put_log = << >>
    /\ req = [r \in Slots |-> Idle]

Files ==
    [ content_type : {"", ALLOWED_CONTENT_TYPE, "text/plain"},
      size : {0, 1000, MAX_FILE_SIZE + 1} ]

Coffee ==
    [ date |-> "01/02", description |-> "coffee shop", amount |-> "4.50",
      type |-> "debit", category |-> "Dining" ]
Bonus ==
    [ date |-> "01/03", description |-> "salary, bonus", amount |-> "100",
      type |-> "credit", category |-> "Other" ]
\* lists extract_and_categorize may return
AgentResults == { <<>>, <<Coffee>>, <<Coffee, Bonus>> }

Fail(r, code) == req' = [req EXCEPT ![r].pc = "failed", ![r].status = code]

\* process_pdf, line 136: a request arrives
ProcessStart(r, f) ==
    /\ req[r].pc = "idle"
    /\ req' = [req EXCEPT ![r] = [Idle EXCEPT !.kind = "process", !.pc = "validate",
                                              !.file = f]]
    /\ UNCHANGED << jobs, issued, put_log >>
    /\ UNCHANGED << avars, pvars, cvars >>

\* lines 140-147; read_ok = FALSE: file.read() raises (line 183: 500)
Validate(r, read_ok) ==
    /\ req[r].kind = "process" /\ req[r].pc = "validate"
    /\ LET f == req[r].file IN
       IF f.content_type # "" /\ f.content_type # ALLOWED_CONTENT_TYPE THEN Fail(r, 400)
       ELSE IF ~read_ok THEN Fail(r, 500)
       ELSE IF f.size > MAX_FILE_SIZE THEN Fail(r, 400)
       ELSE IF f.size = 0 THEN Fail(r, 400)
       ELSE req' = [req EXCEPT ![r].pc = "extract",
                               ![r].passed = req[r].passed \cup {"validation"}]
    /\ UNCHANGED << jobs, issued, put_log >>
    /\ UNCHANGED << avars, pvars, cvars >>

\* lines 150-160: extract_text_from_pdf raises, or gives blank or other text
ExtractText(r, outcome) ==
    /\ req[r].kind = "process" /\ req[r].pc = "extract"
    /\ IF outcome \in {"raises", "blank"} THEN Fail(r, 422)
       ELSE req' = [req EXCEPT ![r].pc = "agent",
                               ![r].passed = req[r].passed \cup {"extraction"}]
    /\ UNCHANGED << jobs, issued, put_log >>
    /\ UNCHANGED << avars, pvars, cvars >>

\* lines 163-166: extract_and_categorize raises or returns
RunAgent(r, raises, txs) ==
    /\ req[r].kind = "process" /\ req[r].pc = "agent"
    /\ IF raises THEN Fail(r, 500)
       ELSE req' = [req EXCEPT ![r].pc = "csv", ![r].transactions = txs,
                               ![r].passed = req[r].passed \cup {"model"}]
    /\ UNCHANGED << jobs, issued, put_log >>
    /\ UNCHANGED << avars, pvars, cvars >>

\* lines 169-170
MakeCsv(r) ==
    /\ req[r].kind = "process" /\ req[r].pc = "csv"
    /\ \E id \in create_job_id(issued) :
         /\ req' = [req EXCEPT ![r].pc = "set_job", ![r].job_id = id,
                      ![r].csv_content = transactions_to_csv(req[r].transactions)]
         /\ issued' = issued \cup {id}
    /\ UNCHANGED << jobs, put_log >>
    /\ UNCHANGED << avars, pvars, cvars >>

\* line 171
SetJob(r) ==
    /\ req[r].kind = "process" /\ req[r].pc = "set_job"
    /\ jobs' = set_job(jobs, req[r].job_id, req[r].transactions, req[r].csv_content)
    /\ put_log' = [i \in DOMAIN put_log \cup {req[r].job_id} |->
                     IF i = req[r].job_id
                     THEN [transactions |-> req[r].transactions,
                           csv_content |-> req[r].csv_content]
                     ELSE put_log[i]]
    /\ req' = [req EXCEPT ![r].pc = "respond", ![r].puts = req[r].puts + 1]
    /\ UNCHANGED issued
    /\ UNCHANGED << avars, pvars, cvars >>

\* lines 172-180
ProcessRespond(r) ==
    /\ req[r].kind = "process" /\ req[r].pc = "respond"
    /\ req' = [req EXCEPT ![r].pc = "ok", ![r].status = 200]
    /\ UNCHANGED << jobs, issued, put_log >>
    /\ UNCHANGED << avars, pvars, cvars >>

\* download_csv line 189 / chat line 202: get_job
Lookup(r, kind, id) ==
    /\ req[r].pc = "idle"
    /\ LET g == get_job(jobs, id) IN
       req' = [req EXCEPT ![r] = [Idle EXCEPT !.kind = kind, !.pc = "got",
                                            !.job_id = id, !.found = g.found,
                                            !.job = g.job,
                                            !.was_put = id \in DOMAIN put_log]]
    /\ UNCHANGED << jobs, issued, put_log >>
    /\ UNCHANGED << avars, pvars, cvars >>

\* download_csv lines 190-196
CsvRespond(r) ==
    /\ req[r].kind = "csv" /\ req[r].pc = "got"
    /\ IF ~req[r].found THEN Fail(r, 404)
       ELSE req' = [req EXCEPT ![r].pc = "ok", ![r].status = 200,
                               ![r].csv_content = req[r].job.csv_content]
    /\ UNCHANGED << jobs, issued, put_log >>
    /\ UNCHANGED << avars, pvars, cvars >>

\* chat lines 203-210: get_reply calls the model once; it may raise
ChatRespond(r, reply_ok) ==
    /\ req[r].kind = "chat" /\ req[r].pc = "got"
    /\ IF ~req[r].found THEN Fail(r, 404)
       ELSE IF reply_ok
       THEN req' = [req EXCEPT ![r].pc = "ok", ![r].status = 200, ![r].llm_calls = 1]
       ELSE req' = [req EXCEPT ![r].pc = "failed", ![r].status = 500,
                               ![r].llm_calls = 1]
    /\ UNCHANGED << jobs, issued, put_log >>
    /\ UNCHANGED << avars, pvars, cvars >>

\* the response is sent; the slot serves the next request
Finish(r) ==
    /\ req[r].pc \in {"ok", "failed"}
    /\ req' = [req EXCEPT ![r] = Idle]
    /\ UNCHANGED << jobs, issued, put_log >>
    /\ UNCHANGED << avars, pvars, cvars >>

StoreNext ==
    \E r \in Slots :
        \/ \E f \in Files : ProcessStart(r, f)
        \/ \E ok \in BOOLEAN : Validate(r, ok)
        \/ \E o \in {"raises", "blank", "text"} : ExtractText(r, o)
        \/ \E raises \in BOOLEAN, txs \in AgentResults : RunAgent(r, raises, txs)
        \/ MakeCsv(r)
        \/ SetJob(r)
        \/ ProcessRespond(r)
        \/ \E kind \in {"csv", "chat"}, id \in JobIds : Lookup(r, kind, id)
        \/ CsvRespond(r)
        \/ \E ok \in BOOLEAN : ChatRespond(r, ok)
        \/ Finish(r)

(***************************************************************************)
(* Specifications: each machine runs while the others stay idle.           *)
(***************************************************************************)
Init == AgentInit /\ PdfInit /\ StoreInit /\ CsvInit

Spec      == Init /\ [][AgentNext]_vars
SpecPdf   == Init /\ [][PdfNext]_vars
SpecStore == Init /\ [][StoreNext]_vars
SpecCsv   == Init /\ [][CsvNext]_vars

\* extract_and_categorize runs on one thread: an iteration of the chunking
\* loop that can run does run.
SpecChunkLoop == Init /\ [][AgentNext]_vars /\ WF_vars(ChunkStep)

(***************************************************************************)
(* Properties of extract_and_categorize (specification Spec).              *)
(***************************************************************************)
Returned == apc = "done"
MalformedShapes == {"not_json", "json_other"}
CallsOf(kind) == {i \in 1..Len(calls) : calls[i].kind = kind}

\* C1: extract_and_categorize never raises because of what the model wrote.
\* The only exception that leaves the call is the one of a model call that
\* itself failed; whatever text the extraction, fallback and categorization
\* calls returned, the call ends by returning a list of transactions, each
\* with a taxonomy category.
C1_MalformedOutputNeverRaises ==
    /\ apc = "raised" => /\ exc = "LLMError"
                         /\ calls # <<>>
                         /\ calls[Len(calls)].shape = "error"
    /\ (\A i \in 1..Len(calls) : calls[i].shape # "error") => exc = ""
    /\ Returned => \A i \in 1..Len(result) : InCategories(result[i].category)

\* C1 witness: the call returned a non-empty list although the extraction
\* response held a non-object element or the categorization response was
\* not a JSON list.
C1_Witness ==
    /\ Returned
    /\ result # <<>>
    /\ \E i \in CallsOf("categorize") : calls[i].shape \in MalformedShapes
    /\ \E i \in CallsOf("extract") : calls[i].shape \in MalformedShapes
    /\ \A i \in 1..Len(result) : result[i].category = "Other"

\* The categorization entries that carry a category, and what they carry.
Covering == {j \in 1..Len(categorized) :
                isinstance_dict(categorized[j]) /\ HasKey(categorized[j], "category")}
RawCategory(j) == PyStr(DictGet(categorized[j], "category", JStr("")))
CategorySet == {CATEGORIES[i] : i \in 1..Len(CATEGORIES)}
CanonicalOf(c) ==
    LET same == {v \in CategorySet : Lower(v) = Lower(c)}
    IN  IF same = {} THEN "Other" ELSE CHOOSE v \in same : TRUE

\* What the returned categories must be when model categories go through f.
CategoriesFollow(f(_)) ==
    Returned =>
        \A i \in 1..Len(result) :
            /\ result[i].category \in CategorySet
            /\ result[i].category \in {"Other"} \cup {f(RawCategory(j)) : j \in Covering}
            /\ Len(categorized) <= Len(result) =>
                   result[i].category = IF i \in Covering THEN f(RawCategory(i))
                                        ELSE "Other"

\* C2 as stated: every returned category is a taxonomy value; a model
\* category equal to a taxonomy value ignoring case becomes that value, any
\* other model category becomes "Other", an uncovered transaction stays
\* "Other".
C2_AsStated == CategoriesFollow(CanonicalOf)

Trimmed(c) == CanonicalOf(Strip(c))

\* C2 amended: the same, the comparison being made after surrounding
\* whitespace is trimmed from the model category.
C2_CategoryInTaxonomy == CategoriesFollow(Trimmed)

\* C2 witness: a returned transaction whose category came from a model
\* category in another case, and one whose model category is unknown.
C2_Witness ==
    /\ Returned
    /\ Len(categorized) <= Len(result)
    /\ \E i \in Covering : RawCategory(i) = "dining" /\ result[i].category = "Dining"
    /\ \E i \in Covering : RawCategory(i) = "Bogus" /\ result[i].category = "Other"

\* C3: no two returned transactions have the same (date, description,
\* amount) key.
C3_NoDuplicateKey ==
    Returned =>
        \A i, j \in 1..Len(result) :
            i # j => << result[i].date, result[i].description, result[i].amount >>
                     # << result[j].date, result[j].description, result[j].amount >>

CeilDiv(a, b) == (a + b - 1) \div b
ExpectedChunks(len) ==
    IF len <= EXTRACTION_TEXT_CAP THEN 1
    ELSE CeilDiv(len - EXTRACTION_CHUNK_OVERLAP,
                 EXTRACTION_TEXT_CAP - EXTRACTION_CHUNK_OVERLAP)

\* C4: for non-blank trimmed text of length len the chunk list has 1 chunk
\* when len <= cap and ceil((len - overlap) / (cap - overlap)) chunks
\* otherwise, and once the extraction loop is over there has been exactly one
\* primary extraction call per chunk.
C4_ChunkCount ==
    /\ (text_len > 0 /\ apc \notin {"idle", "chunking"}) =>
           Len(chunks) = ExpectedChunks(text_len)
    /\ (text_len > 0 /\ apc \in {"fallback", "normalize", "categorize", "done"}) =>
           Cardinality(CallsOf("extract")) = ExpectedChunks(text_len)

\* C4 witness: a text over the cap whose last chunk ends exactly at the end
\* of the text went through all its extraction calls.
C4_Witness ==
    /\ Returned
    /\ text_len = EXTRACTION_TEXT_CAP + STRIDE
    /\ Len(chunks) = 2
    /\ Cardinality(CallsOf("extract")) = 2

\* C5: when the categorization list is one element shorter than the
\* transaction list, the last transaction, the one without an entry, is
\* returned with category "Other".
C5_MissingEntryIsOther ==
    (Returned /\ result # <<>> /\ Len(categorized) = Len(result) - 1) =>
        result[Len(result)].category = "Other"

\* C5 witness: two transactions, one category entry, and the first
\* transaction did get the category of that entry.
C5_Witness ==
    /\ Returned
    /\ Len(result) = 2
    /\ Len(categorized) = 1
    /\ 1 \in Covering
    /\ result[1].category = "Groceries"
    /\ result[2].category = "Other"

(***************************************************************************)
(* Properties of extract_text_from_pdf (specification SpecPdf).            *)
(***************************************************************************)
PdfCalled(step) == \E i \in 1..Len(pcalls) : pcalls[i] = step

\* C6: a scanned PDF of at most 5 pages in auto mode is rendered at 150 DPI
\* and read with the vision method; when the vision method has no API key,
\* OCR still runs and its text is what extract_text_from_pdf returns (poppler
\* and Tesseract being installed).
C6_SmallScannedFallsBackToOcr ==
    (/\ ppc = "returned"
     /\ env.poppler /\ env.tesseract
     /\ pdf.method = "auto"
     /\ pdf.pages \in 1..5
     /\ IsScanned(text, pdf.pages)
     /\ images > 0)
    => /\ dpi = 150
       /\ PdfCalled("vision")
       /\ ~env.api_key => (PdfCalled("ocr") /\ presult = ocr_text)

MissingDependency == {"poppler_missing", "tesseract_missing"}
InstallHint == {"poppler_hint", "tesseract_hint"}

\* C7: a missing native dependency (poppler when rendering, Tesseract when
\* running OCR) ends extract_text_from_pdf with an exception carrying the
\* installation hint, never with a returned text; and the hint tells the
\* caller that a dependency is missing: no other failure carries it.
C7_MissingDependencyDistinct ==
    /\ (ppc = "raised" /\ pexc.cause \in MissingDependency) => pexc.msg \in InstallHint
    /\ (ppc \in {"returned", "auto_vision"} /\ PdfCalled("render")) => env.poppler
    /\ (ppc \in {"returned", "auto_vision"} /\ PdfCalled("ocr")) => env.tesseract
    /\ (ppc = "raised" /\ pexc.msg \in InstallHint) => pexc.cause \in MissingDependency

\* C8: once _pdf_to_images has returned or raised, the temporary PDF file
\* it created does not exist any more.
C8_TempFileRemoved ==
    ppc \in {"images", "auto_vision", "returned", "raised"} => ~tmp_exists

(***************************************************************************)
(* Properties of the job store and process_pdf (specification SpecStore).  *)
(***************************************************************************)
JobOf(r) == [transactions |-> req[r].transactions, csv_content |-> req[r].csv_content]
LookedUp(r) == req[r].kind \in {"csv", "chat"} /\ req[r].pc \in {"got", "ok", "failed"}

\* C9: whatever the interleaving of requests, every job put is in the store
\* exactly as it was put (a put for another id neither changes nor removes
\* it), a get of an id put earlier finds that job with the transactions and
\* the CSV text that were put, and a get finds nothing else: no record that
\* was never put, no partly built record.
C9_StoreKeepsWhatWasPut ==
    /\ \A id \in DOMAIN put_log : id \in DOMAIN jobs /\ jobs[id] = put_log[id]
    /\ \A r \in Slots :
          LookedUp(r) =>
              /\ req[r].was_put => (req[r].found /\ req[r].job = put_log[req[r].job_id])
              /\ req[r].found => req[r].was_put

\* C9 witness: a lookup found the first job while another request had just
\* put a second one.
C9_Witness ==
    \E r, q \in Slots :
        /\ LookedUp(r) /\ req[r].pc = "got"
        /\ req[r].found /\ req[r].job.transactions # <<>>
        /\ req[q].kind = "process" /\ req[q].pc = "respond"
        /\ req[q].job_id # req[r].job_id
        /\ Cardinality(DOMAIN jobs) = 2

AllStages == {"validation", "extraction", "model"}
Stored(r) == req[r].pc \in {"respond", "ok"}

\* the only way the store changes: one request at line 171 adds its job
\* under its unused id, every job already stored staying as it is
OnePutBy(r) ==
    /\ req[r].kind = "process" /\ req[r].pc = "set_job" /\ req'[r].pc = "respond"
    /\ req[r].passed = AllStages
    /\ req[r].job_id \notin DOMAIN jobs
    /\ DOMAIN jobs' = DOMAIN jobs \cup {req[r].job_id}
    /\ jobs'[req[r].job_id] = JobOf(r)
    /\ \A id \in DOMAIN jobs : jobs'[id] = jobs[id]

\* C10: a process-pdf request has put exactly one job once every stage
\* succeeded, and that job is in the store under the request's id; a request
\* that failed has put none and passed not all the stages; the store changes
\* by such a put only, so a stored job is never modified afterwards.
C10_OneJobPerSuccessfulRequest ==
    /\ [](\A r \in Slots :
            req[r].kind = "process" =>
                /\ req[r].puts = IF Stored(r) THEN 1 ELSE 0
                /\ Stored(r) => /\ req[r].passed = AllStages
                                /\ req[r].job_id \in DOMAIN jobs
                                /\ jobs[req[r].job_id] = JobOf(r)
                /\ req[r].pc = "failed" => req[r].passed # AllStages)
    /\ [][jobs' # jobs => \E r \in Slots : OnePutBy(r)]_vars

\* C10 witness: one request answered after storing its job while another,
\* failed at the model stage, stored nothing.
C10_Witness ==
    \E r, q \in Slots :
        /\ req[r].kind = "process" /\ req[r].pc = "ok" /\ req[r].puts = 1
        /\ req[r].job_id \in DOMAIN jobs
        /\ req[q].kind = "process" /\ req[q].pc = "failed" /\ req[q].status = 500
        /\ req[q].passed = {"validation", "extraction"}
        /\ Cardinality(DOMAIN jobs) = 1

Answered(r) == req[r].pc \in {"ok", "failed"}

\* C11: a CSV download or a chat for an id that no request had stored ends
\* with status 404; the download returns no CSV text, not even a header,
\* and the chat has issued no model call.
C11_UnknownJobIsNotFound ==
    \A r \in Slots :
        (LookedUp(r) /\ ~req[r].was_put) =>
            /\ ~req[r].found
            /\ req[r].llm_calls = 0
            /\ req[r].csv_content = <<>>
            /\ Answered(r) => (req[r].pc = "failed" /\ req[r].status = 404)

\* C11 witness: while one job is stored, a download and a chat for another
\* id have both been answered 404.
C11_Witness ==
    \E r, q \in Slots :
        /\ req[r].kind = "csv" /\ req[q].kind = "chat"
        /\ req[r].pc = "failed" /\ req[q].pc = "failed"
        /\ req[r].status = 404 /\ req[q].status = 404
        /\ ~req[r].was_put /\ ~req[q].was_put
        /\ jobs # << >>

(***************************************************************************)
(* Properties of transactions_to_csv (specification SpecCsv).              *)
(***************************************************************************)
\* A CSV reader: the records of a text, each a sequence of fields, each the
\* pieces of its value.  A quote opens a quoted field at the start of a
\* field only, a doubled quote inside one is a quote character, and a line
\* break outside quotes ends the record (CR LF counting as one).
SaveField(st) == [st EXCEPT !.record = Append(st.record, st.field), !.field = << >>]
SaveRecord(st) ==
    [st EXCEPT !.records = Append(st.records, Append(st.record, st.field)),
               !.record = << >>, !.field = << >>]
AddPiece(st, c) == [st EXCEPT !.field = Append(st.field, c)]
At(st, mode) == [st EXCEPT !.mode = mode]
AfterBreak(c) == IF c = "\r" THEN "eat_lf" ELSE "start_record"

RECURSIVE ReadCsv(_, _, _)
ReadCsv(csv, i, st) ==
    IF i > Len(csv)
    THEN IF st.mode \in {"start_record", "eat_lf"} THEN st.records
         ELSE SaveRecord(st).records
    ELSE LET c == csv[i] IN
      CASE st.mode = "eat_lf" ->
             IF c = "\n" THEN ReadCsv(csv, i + 1, At(st, "start_record"))
             ELSE ReadCsv(csv, i, At(st, "start_record"))
        [] st.mode = "start_record" ->
             IF c \in {"\r", "\n"} THEN ReadCsv(csv, i + 1, At(st, AfterBreak(c)))
             ELSE ReadCsv(csv, i, At(st, "start_field"))
        [] st.mode = "start_field" ->
             IF c \in {"\r", "\n"} THEN ReadCsv(csv, i + 1, At(SaveRecord(st), AfterBreak(c)))
             ELSE IF c = "\"" THEN ReadCsv(csv, i + 1, At(st, "in_quoted"))
             ELSE IF c = "," THEN ReadCsv(csv, i + 1, SaveField(st))
             ELSE ReadCsv(csv, i + 1, At(AddPiece(st, c), "in_field"))
        [] st.mode = "in_field" ->
             IF c \in {"\r", "\n"} THEN ReadCsv(csv, i + 1, At(SaveRecord(st), AfterBreak(c)))
             ELSE IF c = "," THEN ReadCsv(csv, i + 1, At(SaveField(st), "start_field"))
             ELSE ReadCsv(csv, i + 1, AddPiece(st, c))
        [] st.mode = "in_quoted" ->
             IF c = "\"" THEN ReadCsv(csv, i + 1, At(st, "quote_in_quoted"))
             ELSE ReadCsv(csv, i + 1, AddPiece(st, c))
        [] st.mode = "quote_in_quoted" ->
             IF c = "\"" THEN ReadCsv(csv, i + 1, At(AddPiece(st, c), "in_quoted"))
             ELSE IF c = "," THEN ReadCsv(csv, i + 1, At(SaveField(st), "start_field"))
             ELSE IF c \in {"\r", "\n"}
             THEN ReadCsv(csv, i + 1, At(SaveRecord(st), AfterBreak(c)))
             ELSE ReadCsv(csv, i + 1, At(AddPiece(st, c), "in_field"))

ParseCsv(csv) ==
    ReadCsv(csv, 1, [mode |-> "start_record", field |-> << >>, record |-> << >>,
                      records |-> << >>])

CsvReturned == cpc = "returned"
HeaderText ==
    << "date", ",", "description", ",", "amount", ",", "type", ",", "category" >>
FieldOf(row, name) == IF name \in DOMAIN row THEN row[name] ELSE ""
IsPlain(x) == Pieces(x) \in {<< >>, << x >>}

\* C12: the CSV text of an empty list is the header row
\* date,description,amount,type,category and nothing else; the text of n >= 1
\* transactions starts with that header row and holds exactly n more
\* records, in input order, each of five fields in the column order, an
\* absent field being empty.
C12_HeaderThenOneRowEach ==
    CsvReturned =>
        LET records == ParseCsv(csv_out) IN
        /\ csv_in = << >> => csv_out = HeaderText \o << "\n" >>
        /\ SubSeq(csv_out, 1, Len(HeaderText)) = HeaderText
        /\ csv_out[Len(HeaderText) + 1] \in {"\r", "\n"}
        /\ Len(records) = Len(csv_in) + 1
        /\ \A i \in 1..Len(csv_in) :
              /\ Len(records[i + 1]) = 5
              /\ \A j \in 1..5 :
                    LET name == HeaderText[2 * j - 1] IN
                    /\ name \notin DOMAIN csv_in[i] => records[i + 1][j] = << >>
                    /\ (name \in DOMAIN csv_in[i] /\ IsPlain(csv_in[i][name])) =>
                           records[i + 1][j] = Pieces(csv_in[i][name])

\* C12 witness: two rows, the first complete, the second without date,
\* type and category.
C12_Witness ==
    /\ CsvReturned
    /\ Len(csv_in) = 2
    /\ DOMAIN csv_in[1] = {"date", "description", "amount", "type", "category"}
    /\ csv_in[1].description = "coffee shop"
    /\ DOMAIN csv_in[2] = {"description", "amount"}

\* C13: reading the text of transactions_to_csv(T) as CSV gives, after the
\* header, the transactions of T in order, each with its five field values
\* (an absent one as the empty string), also when a value holds a comma, a
\* double quote or a line break.
C13_CsvRoundTrip ==
    CsvReturned =>
        Tail(ParseCsv(csv_out))
            = [i \in 1..Len(csv_in) |->
                 [j \in 1..5 |-> Pieces(FieldOf(csv_in[i], HeaderText[2 * j - 1]))]]

\* C13 witness: a list whose values hold a comma and a double quote.
C13_Witness ==
    /\ CsvReturned
    /\ Len(csv_in) = 2
    /\ FieldOf(csv_in[1], "description") = "salary, bonus"
    /\ FieldOf(csv_in[2], "description") = "say \"hi\""
    /\ Len(ParseCsv(csv_out)) = 3

\* The objects among the transactions that were normalized, in order.
SourceObjects == SelectSeq(transactions, isinstance_dict)
CreditSpellings == {"credit", "Credit", "CREDIT", "cr", "CR", "Cr", "cR"}
SaysCredit(t) ==
    /\ HasKey(t, "type")
    /\ DictGet(t, "type", JNull).k = "str"
    /\ DictGet(t, "type", JNull).s \in CreditSpellings

\* C14: every returned transaction has type "debit" or "credit": "credit"
\* when the type of the source object is the string credit or cr in any
\* casing, "debit" for every other value and for an absent type.
C14_TypeIsDebitOrCredit ==
    (Returned /\ result # << >>) =>
        /\ Len(result) = Len(SourceObjects)
        /\ \A i \in 1..Len(result) :
              /\ result[i].type \in {"debit", "credit"}
              /\ result[i].type = "credit" <=> SaysCredit(SourceObjects[i])

\* C14 witness: returned transactions whose source types were "credit",
\* " credit ", "Refund" and null.
C14_Witness ==
    /\ Returned
    /\ Len(result) = 4
    /\ << result[1].type, result[2].type, result[3].type, result[4].type >>
           = << "credit", "debit", "debit", "debit" >>
    /\ DictGet(SourceObjects[1], "type", JNull) = JStr("credit")
    /\ DictGet(SourceObjects[4], "type", JStr("")) = JNull

\* C15: on the scanned route that uses both methods (auto mode, more pages
\* than the vision-only limit, the vision method having its API key and
\* client), a failure of OCR that is not a missing Tesseract is not fatal: once OCR has been called, extract_text_from_pdf
\* raises for a missing dependency only, and otherwise goes on to the vision
\* method and returns.
C15_OcrFailureLeavesVision ==
    (/\ pdf.method = "auto" /\ ~vision_only
     /\ env.api_key /\ env.groq
     /\ PdfCalled("ocr")
     /\ ppc \in {"raised", "returned"})
    => /\ ppc = "raised" => pexc.cause \in MissingDependency
       /\ ppc = "returned" => PdfCalled("vision")

\* What the parsing resilience described for a response recovers: the first
\* complete array found by bracket-depth matching when it parses as a list,
\* else the complete objects that look like transactions.
Recovered(response) ==
    LET a == json_loads(extract_first_json_array(response)) IN
    IF a.ok /\ isinstance_list(a.val) THEN a.val.items
    ELSE parse_transaction_objects_from_text(response)
EndsWith(all, tail) ==
    /\ Len(all) >= Len(tail)
    /\ SubSeq(all, Len(all) - Len(tail) + 1, Len(all)) = tail

\* C16: when the first bracketed block of a primary extraction response
\* does not parse as JSON, the transactions of that response are still
\* collected: those of its first complete array, else its complete
\* transaction-shaped objects.
C16_UnparsableBlockIsRecovered ==
    (/\ apc = "extract"
     /\ chunk_idx > 1
     /\ ~json_loads(extract_json_block(chunk_out)).ok)
    => EndsWith(all_transactions, Recovered(chunk_out))

\* C17: categories go back by position: for every index i within both the
\* returned transactions and the categorization response, when entry i is an
\* object with a category, transaction i is returned with that category,
\* coerced to the taxonomy, whatever the other entries are.
C17_PositionDecides ==
    Returned =>
        \A i \in Covering :
            i <= Len(result) => result[i].category = Trimmed(RawCategory(i))

\* C18: the fallback prompt is issued at most once per call; it is about to
\* be issued only when the chunk calls, all made, gave no transaction and
\* the trimmed text is longer than 400 characters, and it is skipped only
\* when one of the two fails; it comes after every chunk call and before
\* the categorization call.
C18_FallbackOnceWhenNothingExtracted ==
    /\ Cardinality(CallsOf("fallback")) <= 1
    /\ \A i \in CallsOf("fallback") :
          /\ text_len > 400
          /\ CallsOf("extract") = 1..Len(chunks)
          /\ i = Len(chunks) + 1
          /\ \A k \in CallsOf("categorize") : i < k
    /\ apc = "fallback" =>
          /\ transactions = << >>
          /\ text_len > 400
          /\ CallsOf("fallback") = {}
          /\ CallsOf("categorize") = {}
          /\ Cardinality(CallsOf("extract")) = Len(chunks)
    /\ (apc = "normalize" /\ CallsOf("fallback") = {}) =>
          (transactions # << >> \/ text_len <= 400)

\* C18 witness: two chunk calls gave nothing, the fallback prompt gave
\* transactions, and the categorization call followed.
C18_Witness ==
    /\ Returned
    /\ result # << >>
    /\ Len(calls) = 4
    /\ << calls[1].kind, calls[2].kind, calls[3].kind, calls[4].kind >>
           = << "extract", "extract", "fallback", "categorize" >>

\* the best direct result as the description has it, and the route it calls for
BestOfParsers ==
    IF pdf.plumber.n - pdf.plumber.pad < 50 THEN pdf.pypdf ELSE pdf.plumber
EnoughText == BestOfParsers.n >= 100 * pdf.pages
OnScannedPath == ppc = "scanned" \/ dpi # 0

\* C19: for a PDF of at least one page, when the best direct result (the
\* primary parser's text, the secondary's when the primary gives under 50
\* trimmed characters) averages at least 100 characters per page, that text
\* is returned unchanged and nothing is rendered or sent to OCR or vision;
\* when it averages less, and only then, the scanned path is taken.
C19_DirectOrScannedByAverage ==
    (ppc # "idle" /\ pdf.pages >= 1) =>
        /\ EnoughText => /\ ppc = "returned"
                         /\ presult = BestOfParsers
                         /\ pcalls = << >>
                         /\ ~OnScannedPath
        /\ ~EnoughText => OnScannedPath

\* C19 witness: the primary parser read 42 characters apart from blanks, the
\* secondary one read 100 per page, and that text was returned.
C19_Witness ==
    /\ ppc = "returned"
    /\ pdf.pages = 2
    /\ pdf.plumber.n > 0
    /\ pdf.plumber.n - pdf.plumber.pad < 50
    /\ pdf.pypdf.n = 200
    /\ presult = pdf.pypdf
    /\ pcalls = << >>

ChunksCover ==
    (text_len > 100000 /\ apc \notin {"idle", "chunking"}) =>
        /\ chunks # << >>
        /\ chunks[1].from = 0
        /\ chunks[Len(chunks)].to = text_len
        /\ \A i \in 1..Len(chunks) :
              /\ chunks[i].from < chunks[i].to
              /\ chunks[i].to - chunks[i].from <= 100000
        /\ \A i \in 2..Len(chunks) : chunks[i].from = chunks[i - 1].to - 3000
        /\ \A pos \in {0, 99999, 100000, text_len - 3001, text_len - 1} :
              \E i \in 1..Len(chunks) : chunks[i].from <= pos /\ pos < chunks[i].to
LoopAdvances ==
    (apc = "chunking" /\ apc' = "chunking") =>
        (start < text_len /\ start' > start /\ Len(chunks') = Len(chunks) + 1)

\* C20: the chunking loop of a text longer than the cap ends, each iteration
\* moving the start forward; its chunks then cover the text: the first
\* starts at 0, the last ends at the end of the text, none is longer than
\* 100000 characters, and each later one starts 3000 characters before the
\* end of the one before it.
C20_ChunkLoopEndsAndCovers ==
    /\ []ChunksCover
    /\ [][LoopAdvances]_vars
    /\ (apc = "chunking") ~> (apc = "extract")

\* C20 witness: a text one character over the cap, split into the chunks
\* [0, 100000) and [97000, 100001).
C20_Witness ==
    /\ apc = "extract"
    /\ text_len = 100001
    /\ chunks = << [from |-> 0, to |-> 100000], [from |-> 97000, to |-> 100001] >>

\* C21: the categorization call is made only with at least one normalized
\* transaction: it is neither pending nor in the call history while the
\* normalized list is empty; a call whose extraction and fallback responses
\* gave no transaction object returns the empty list with no categorization
\* call; and blank text returns with no model call at all.
C21_CategorizeOnlyWithTransactions ==
    /\ (apc = "categorize" \/ CallsOf("categorize") # {}) => normalized # << >>
    /\ (Returned /\ SourceObjects = << >>) =>
          (result = << >> /\ CallsOf("categorize") = {})
    /\ (Returned /\ text_len = 0) => calls = << >>

=============================================================================
